---- MODULE Spec2Model ----
(***************************************************************************)
(* Agent gateway of bruno_ai: the registry, the per-agent circuit breaker,  *)
(* the health monitor, the load balancer and the task router of            *)
(* server/agents/v2/a2a_gateway.py; the sliding-window rate limiter of     *)
(* server/agents/v2/instacart_integration_agent.py; the meal-planning and  *)
(* plan-adaptation workflows of server/src/agents/v2/bruno_master_agent.py;*)
(* the cache operations of server/src/agents/v2/base_agent.py; and the     *)
(* agents' registration with the gateway of server/agents/v2/main.py.      *)
(*                                                                         *)
(* Time is the wall clock in seconds (datetime.now()).  The handlers are   *)
(* asyncio coroutines: the code between two suspending awaits runs         *)
(* atomically, so every action below is one such block.                    *)
(***************************************************************************)
EXTENDS Integers, Sequences, FiniteSets, Bags, TLC

\* ---------------------------------------------------------------- bounds
MaxTasks == 2        \* create_task calls that may be in flight together
MaxRequests == 7     \* tasks dispatched in one run
MaxTime == 120       \* the clock stops here
TickSeconds == 60    \* granularity of the clock
MaxBreakers == 1     \* CircuitBreaker objects the gateway constructs in one run
MaxThreshold == 3    \* failure_threshold of a CircuitBreaker constructed on its own
MaxFailures == 4     \* record_failure calls made on such a breaker without a success
MaxLimit == 2        \* requests_per_hour of a RateLimiter
MaxCallers == 2      \* acquire() calls that may wait together
MaxAcquires == 4     \* acquire() calls admitted inside one hour or waiting
LimiterMaxTime == 7200   \* the clock of the rate limiter stops here
LimiterTickSeconds == 1800   \* granularity of that clock
MaxRegistrations == 3    \* successful register_agent calls in a run of the registry
MaxRouted == 2           \* tasks dispatched in a run with deregistrations
MaxRecorded == 5         \* record_request calls on a LoadBalancer
MaxAdaptCalls == 2       \* adapt_meal_plan_real_time calls in one run
MaxCacheReads == 2       \* cache reads counted in the metrics of one agent object
MaxReRegistrations == 2  \* successful register_agent calls in a run with routing
MaxReRouted == 3         \* tasks dispatched in a run with re-registration

\* ------------------------------------------------------ program constants
DefaultFailureThreshold == 5
DefaultTimeout == 60
TestRateLimit == 100
HourSeconds == 3600
DefaultBudgetScore == 80      \* budget_analysis.get('optimization_score', 0.8), in hundredths
DefaultRecipeScore == 85      \* recipe_result.get('nutrition_score', 0.85)
DefaultShoppingScore == 90    \* shopping_result.get('cost_efficiency', 0.9)
max_retries == 5              \* _register_agent_with_gateway
InitialRetryDelay == 2        \* retry_delay = 2, in seconds

None == -1
AgentNames == {"a1"}
Statuses == {"healthy", "unhealthy", "unreachable"}

VARIABLES
    now,                \* datetime.now()
    registered_agents,  \* name -> [status, request_count, error_count, avg_response_time]
    circuit_breakers,   \* name -> reference to a CircuitBreaker object
    breakers,           \* the CircuitBreaker objects, by reference
    agent_metrics,      \* name -> [total_requests, successful_requests, failed_requests, avg_response_time]
    rate_limiters,      \* name -> [requests, limit], as the gateway's test installs it
    tasks,              \* the create_task calls awaiting client.post, with their locals (a bag)
    posts,              \* history: HTTP requests sent to each agent's task endpoint
    answer,             \* history: the create_task call that answered last and its HTTP status
    consec,             \* history: record_failure calls since the last record_success, per breaker
    cb_call,            \* history: the last call made on a breaker of its own
    requests_per_hour,  \* RateLimiter.requests_per_hour
    requests,           \* RateLimiter.requests: the recorded timestamps
    acq,                \* the acquire() calls: position and locals
    rl_event,           \* history: admission times, and the acquire() that returned last
    agent_keys,         \* list(registered_agents.keys()): the names in insertion order
    reg_event,          \* history: the register_agent or deregister call that answered last
    monitor,            \* health_monitoring_task: position and the names left in its for loop
    mon_cycle,          \* history: the names the running cycle started with, and those probed
    request_counts,     \* LoadBalancer.request_counts: instance id -> requests recorded
    response_times,     \* LoadBalancer.response_times: instance id -> average response time
    lb_call,            \* history: the last call made on the load balancer
    orch,               \* orchestrate_meal_planning: position and locals
    adapt,              \* adapt_meal_plan_real_time: position and locals
    cache,              \* an agent's redis client, what the store holds, the cache metrics
    selfreg             \* _register_agent_with_gateway: position and locals

monitorVars == <<monitor, mon_cycle>>
balancerVars == <<request_counts, response_times, lb_call>>
masterVars == <<orch, adapt>>
agentVars == <<cache, selfreg>>
restVars == <<balancerVars, masterVars, agentVars>>
otherVars == <<agent_keys, reg_event, monitorVars, restVars>>
gatewayVars == <<registered_agents, circuit_breakers, agent_metrics, rate_limiters,
                 tasks, posts, answer, otherVars>>
limiterVars == <<requests_per_hour, requests, acq, rl_event>>
vars == <<now, breakers, consec, cb_call, gatewayVars, limiterVars>>

\* ----------------------------------------------------------- rationals
\* avg_response_time is a float; it is kept exact here as a reduced fraction.
RECURSIVE GCD(_, _)
GCD(a, b) == IF b = 0 THEN a ELSE GCD(b, a % b)

Rat(n, d) == LET g == GCD(n, d) IN IF n = 0 THEN [num |-> 0, den |-> 1]
                                   ELSE [num |-> n \div g, den |-> d \div g]

\* (avg * (n - 1) + x) / n
RollingAverage(avg, n, x) == Rat(avg.num * (n - 1) + x * avg.den, avg.den * n)

\* ------------------------------------------------------- CircuitBreaker
NewCircuitBreaker(threshold, timeout) ==
    [failure_threshold |-> threshold, timeout |-> timeout,
     failure_count |-> 0, last_failure_time |-> None, state |-> "CLOSED"]

\* can_execute() leaving OPEN one tick early: >= for >
can_execute_eager(cb, t) ==
    IF cb.state = "CLOSED" THEN [ret |-> TRUE, cb |-> cb]
    ELSE IF cb.state = "OPEN" THEN
        IF cb.last_failure_time # None /\ t - cb.last_failure_time >= cb.timeout
        THEN [ret |-> TRUE, cb |-> [cb EXCEPT !.state = "HALF_OPEN"]]
        ELSE [ret |-> FALSE, cb |-> cb]
    ELSE [ret |-> cb.state = "HALF_OPEN", cb |-> cb]

\* can_execute() admitting after the timeout without the move to HALF_OPEN
can_execute_stays_open(cb, t) ==
    IF cb.state = "OPEN"
    THEN [ret |-> cb.last_failure_time # None /\ t - cb.last_failure_time > cb.timeout,
          cb |-> cb]
    ELSE [ret |-> cb.state \in {"CLOSED", "HALF_OPEN"}, cb |-> cb]

\* can_execute(): the answer and the breaker as the call leaves it
can_execute(cb, t) ==
    IF cb.state = "CLOSED" THEN [ret |-> TRUE, cb |-> cb]
    ELSE IF cb.state = "OPEN" THEN
        IF cb.last_failure_time # None /\ t - cb.last_failure_time > cb.timeout
        THEN [ret |-> TRUE, cb |-> [cb EXCEPT !.state = "HALF_OPEN"]]
        ELSE [ret |-> FALSE, cb |-> cb]
    ELSE IF cb.state = "HALF_OPEN" THEN [ret |-> TRUE, cb |-> cb]
    ELSE [ret |-> FALSE, cb |-> cb]

\* record_success() without the reset of failure_count
record_success_keeps_count(cb) == [cb EXCEPT !.state = "CLOSED"]

record_success(cb) == [cb EXCEPT !.failure_count = 0, !.state = "CLOSED"]

\* record_failure() opening one failure late: > for >=
record_failure_late(cb, t) ==
    LET c == cb.failure_count + 1
    IN  [cb EXCEPT !.failure_count = c,
                   !.last_failure_time = t,
                   !.state = IF c > cb.failure_threshold THEN "OPEN" ELSE @]

\* record_failure() opening only when the count meets the threshold: = for >=
record_failure_exact(cb, t) ==
    LET c == cb.failure_count + 1
    IN  [cb EXCEPT !.failure_count = c,
                   !.last_failure_time = t,
                   !.state = IF c = cb.failure_threshold THEN "OPEN" ELSE @]

record_failure(cb, t) ==
    LET c == cb.failure_count + 1
    IN  [cb EXCEPT !.failure_count = c,
                   !.last_failure_time = t,
                   !.state = IF c >= cb.failure_threshold THEN "OPEN" ELSE @]

\* ------------------------------------------------------------- gateway
NewMetrics == [total_requests |-> 0, successful_requests |-> 0,
               failed_requests |-> 0, avg_response_time |-> Rat(0, 1)]

NewAgentInfo == [status |-> "healthy", request_count |-> 0, error_count |-> 0,
                 avg_response_time |-> Rat(0, 1)]

NoAnswer == [op |-> "none", agent |-> "a1", status |-> 0, raised |-> FALSE, cb |-> 0,
             trial |-> FALSE]
\* how a create_task call leaves the handler: `return response.json()` (200) or
\* `raise HTTPException(status_code=code)` (404, 503, 500)
Answer(a, code, b, trial) ==
    [op |-> "create_task", agent |-> a, status |-> code, raised |-> (code # 200),
     cb |-> b, trial |-> trial]

\* the locals of a create_task call awaiting client.post; trial: history, the
\* call was admitted with the breaker in HALF_OPEN
Posting(a, b, t, trial) == [agent |-> a, cb |-> b, start_time |-> t, trial |-> trial]

NoCall == [op |-> "none", ret |-> FALSE, at |-> 0,
           before |-> NewCircuitBreaker(0, 0), after |-> NewCircuitBreaker(0, 0)]

\* a function with one more (or one replaced) key
Put(f, k, v) == [x \in DOMAIN f \cup {k} |-> IF x = k THEN v ELSE f[x]]

\* a lookup that takes every name with a breaker for a registered one
_get_healthy_agent_by_breaker(agents, a) ==
    IF a \in DOMAIN circuit_breakers THEN a ELSE "none"

_get_healthy_agent_any_status(agents, a) ==
    IF a \in DOMAIN agents THEN a ELSE "none"

_get_healthy_agent(agents, a) ==
    IF a \in DOMAIN agents /\ agents[a].status = "healthy" THEN a ELSE "none"

\* the metrics of agent a after _record_success_metrics(a, response_time)
SuccessMetrics(metrics, a, response_time) ==
    LET m0 == IF a \in DOMAIN metrics THEN metrics[a] ELSE NewMetrics
        n  == m0.total_requests + 1
    IN  [m0 EXCEPT !.total_requests = n,
                   !.successful_requests = @ + 1,
                   !.avg_response_time =
                       IF n = 1 THEN Rat(response_time, 1)
                       ELSE RollingAverage(m0.avg_response_time, n, response_time)]

\* the metrics of agent a after _record_failure_metrics(a)
FailureMetrics(metrics, a) ==
    LET m0 == IF a \in DOMAIN metrics THEN metrics[a] ELSE NewMetrics
    IN  [m0 EXCEPT !.total_requests = @ + 1, !.failed_requests = @ + 1]

NoRateLimiter ==
    /\ requests_per_hour = 0
    /\ requests = << >>
    /\ acq = << >>
    /\ rl_event = [op |-> "none"]

NoRegistration == [op |-> "none", agent |-> "a1", found |-> FALSE, probe_ok |-> FALSE,
                   status |-> 0]

\* health_monitoring_task starts in asyncio.sleep(health_check_interval)
MonitorInit ==
    /\ monitor = [pc |-> "sleeping", pending |-> << >>]
    /\ mon_cycle = [names |-> << >>, probed |-> {}]

\* LoadBalancer.__init__
BalancerInit ==
    /\ request_counts = << >>
    /\ response_times = << >>
    /\ lb_call = [op |-> "none"]

\* what a result slot of the master agent holds: nothing yet ("none"), a
\* delegation under way ("pending"), the agent's result dict ("data", with the
\* slot's score when the dict has one), the dict {"error": ..., "agent": ...}
\* ("error"), or the empty dict ("empty")
Slot(kind, score) == [kind |-> kind, score |-> score]
NoSlot == Slot("none", None)
Pending == Slot("pending", None)

NoPlan == [pc |-> "idle", budget |-> NoSlot, nutrition |-> NoSlot, pricing |-> NoSlot,
           recipe |-> NoSlot, shopping |-> NoSlot,
           fate |-> [k \in {"budget", "nutrition", "pricing", "recipe", "shopping"} |-> "none"],
           result |-> [success |-> FALSE]]

NoResult == [success |-> FALSE, adaptations_made |-> FALSE, bruno_response |-> "",
             status |-> ""]
NoAdaptation == [pc |-> "idle", current_meal_plan |-> << >>, supplied |-> << >>,
                 current_pricing |-> NoSlot, changes_required |-> FALSE,
                 delegations |-> << >>, result |-> NoResult, calls |-> 0,
                 prev |-> [calls |-> 0, supplied |-> << >>, current_pricing |-> NoSlot,
                           result |-> NoResult]]

MasterInit ==
    /\ orch = NoPlan
    /\ adapt = NoAdaptation

NoCacheCall == [op |-> "none", key |-> <<"", "">>, ret |-> "None", raised |-> FALSE]

\* BaseAgent.__init__ with _initialize_redis returning None; interactions: the
\* length of user_preferences[user_id]["interactions"]
NoCache == [redis |-> "none", store |-> << >>, cache_hits |-> 0, cache_misses |-> 0,
            interactions |-> 0, call |-> NoCacheCall]

NoSelfRegistration == [pc |-> "idle", attempt |-> 0, retry_delay |-> 0,
                       attempts |-> << >>, delays |-> << >>, slept |-> FALSE]

AgentInit ==
    /\ cache = NoCache
    /\ selfreg = NoSelfRegistration

GatewayInit ==
    /\ agent_keys = << >>
    /\ reg_event = NoRegistration
    /\ MonitorInit
    /\ BalancerInit
    /\ MasterInit
    /\ AgentInit
    /\ registered_agents = << >>
    /\ circuit_breakers = << >>
    /\ agent_metrics = << >>
    /\ rate_limiters = << >>
    /\ tasks = EmptyBag
    /\ posts = [a \in AgentNames |-> 0]
    /\ answer = NoAnswer

Init ==
    /\ now = 0
    /\ breakers = << >>
    /\ consec = << >>
    /\ cb_call = NoCall
    /\ GatewayInit
    /\ NoRateLimiter

Tick ==
    /\ now + TickSeconds <= MaxTime
    /\ now' = now + TickSeconds
    /\ UNCHANGED <<breakers, consec, cb_call, gatewayVars, limiterVars>>

\* a register_agent that leaves the breaker of a name it already knows in place
register_agent_keeps_breaker(a, probe_ok) ==
    /\ IF probe_ok
       THEN /\ registered_agents' = Put(registered_agents, a, NewAgentInfo)
            /\ agent_keys' = IF a \in DOMAIN registered_agents THEN agent_keys
                             ELSE Append(agent_keys, a)
            /\ IF a \in DOMAIN circuit_breakers
               THEN UNCHANGED <<breakers, circuit_breakers, consec>>
               ELSE /\ breakers' = Append(breakers,
                           NewCircuitBreaker(DefaultFailureThreshold, DefaultTimeout))
                    /\ circuit_breakers' = Put(circuit_breakers, a, Len(breakers) + 1)
                    /\ consec' = Append(consec, 0)
       ELSE UNCHANGED <<registered_agents, agent_keys, breakers, circuit_breakers, consec>>
    /\ reg_event' = [op |-> "register_agent", agent |-> a,
                     found |-> a \in DOMAIN registered_agents, probe_ok |-> probe_ok,
                     status |-> IF probe_ok THEN 200 ELSE 400]
    /\ UNCHANGED <<limiterVars, monitorVars, restVars>>
    /\ UNCHANGED <<now, cb_call, agent_metrics, rate_limiters, tasks, posts, answer>>

\* a register_agent that stores the agent before (and whatever) the probe answers
register_agent_unprobed(a, probe_ok) ==
    /\ registered_agents' = Put(registered_agents, a, NewAgentInfo)
    /\ agent_keys' = IF a \in DOMAIN registered_agents THEN agent_keys
                     ELSE Append(agent_keys, a)
    /\ breakers' = Append(breakers,
           NewCircuitBreaker(DefaultFailureThreshold, DefaultTimeout))
    /\ circuit_breakers' = Put(circuit_breakers, a, Len(breakers) + 1)
    /\ consec' = Append(consec, 0)
    /\ reg_event' = [op |-> "register_agent", agent |-> a,
                     found |-> a \in DOMAIN registered_agents, probe_ok |-> probe_ok,
                     status |-> IF probe_ok THEN 200 ELSE 400]
    /\ UNCHANGED <<limiterVars, monitorVars, restVars>>
    /\ UNCHANGED <<now, cb_call, agent_metrics, rate_limiters, tasks, posts, answer>>

\* POST /register_agent, with the outcome of the health probe
register_agent(a, probe_ok) ==
    /\ IF probe_ok
       THEN /\ registered_agents' = Put(registered_agents, a, NewAgentInfo)
            /\ agent_keys' = IF a \in DOMAIN registered_agents THEN agent_keys
                             ELSE Append(agent_keys, a)
            /\ breakers' = Append(breakers,
                   NewCircuitBreaker(DefaultFailureThreshold, DefaultTimeout))
            /\ circuit_breakers' = Put(circuit_breakers, a, Len(breakers) + 1)
            /\ consec' = Append(consec, 0)
       ELSE UNCHANGED <<registered_agents, agent_keys, breakers, circuit_breakers, consec>>
    /\ reg_event' = [op |-> "register_agent", agent |-> a,
                     found |-> a \in DOMAIN registered_agents, probe_ok |-> probe_ok,
                     status |-> IF probe_ok THEN 200 ELSE 400]
    /\ UNCHANGED <<limiterVars, monitorVars, restVars>>
    /\ UNCHANGED <<now, cb_call, agent_metrics, rate_limiters, tasks, posts, answer>>

\* GET /agents/{agent_name}/health, with the outcome of the probe
check_agent_health(a, outcome) ==
    /\ a \in DOMAIN registered_agents
    /\ registered_agents' = [registered_agents EXCEPT ![a].status = outcome]
    /\ UNCHANGED <<limiterVars, otherVars>>
    /\ UNCHANGED <<now, breakers, consec, cb_call, circuit_breakers, agent_metrics,
                   rate_limiters, tasks, posts, answer>>

\* create_task up to the await of client.post
create_task_begin(a) ==
    /\ BagCardinality(tasks) < MaxTasks
    /\ IF _get_healthy_agent(registered_agents, a) = "none"
       THEN /\ answer' = Answer(a, 404, 0, FALSE)
            /\ UNCHANGED <<breakers, tasks, posts>>
       ELSE LET b == circuit_breakers[a]
                r == can_execute(breakers[b], now)
            IN  /\ breakers' = [breakers EXCEPT ![b] = r.cb]
                /\ IF ~r.ret
                   THEN /\ answer' = Answer(a, 503, b, FALSE)
                        /\ UNCHANGED <<tasks, posts>>
                   ELSE /\ posts[a] < MaxRequests
                        /\ tasks' = tasks (+) SetToBag({Posting(a, b, now,
                                                         r.cb.state = "HALF_OPEN")})
                        /\ posts' = [posts EXCEPT ![a] = @ + 1]
                        /\ answer' = NoAnswer
    /\ UNCHANGED <<limiterVars, otherVars>>
    /\ UNCHANGED <<now, consec, cb_call, registered_agents, circuit_breakers,
                   agent_metrics, rate_limiters>>

\* create_task from the return of client.post: outcome "ok" (a response whose
\* body parses), "badjson" (a response whose body response.json() rejects) or
\* "error" (client.post raised: transport error or timeout).  With no registry
\* entry under the name (missing), the update of the agent info at the end of
\* _record_success_metrics and of _record_failure_metrics raises KeyError: the
\* except block of create_task runs _record_failure_metrics and is left by that
\* KeyError, before record_failure() and with neither verdict on the breaker.
create_task_end(task, outcome) ==
    LET a  == task.agent
        b  == task.cb
        rt == now - task.start_time
        missing == a \notin DOMAIN registered_agents
        m1 == IF outcome = "error" THEN agent_metrics
              ELSE Put(agent_metrics, a, SuccessMetrics(agent_metrics, a, rt))
        i1 == IF outcome = "error" THEN registered_agents
              ELSE [registered_agents EXCEPT
                       ![a].request_count = m1[a].total_requests,
                       ![a].avg_response_time = m1[a].avg_response_time]
        c1 == IF outcome = "error" THEN breakers[b] ELSE record_success(breakers[b])
        m2 == IF outcome = "ok" /\ ~missing THEN m1
              ELSE Put(m1, a, FailureMetrics(m1, a))
        i2 == IF outcome = "ok" THEN i1
              ELSE [i1 EXCEPT ![a].request_count = m2[a].total_requests,
                              ![a].error_count = m2[a].failed_requests]
        c2 == IF outcome = "ok" THEN c1 ELSE record_failure(c1, now)
    IN  /\ BagIn(task, tasks)
        /\ agent_metrics' = m2
        /\ registered_agents' = IF missing THEN registered_agents ELSE i2
        /\ breakers' = IF missing THEN breakers ELSE [breakers EXCEPT ![b] = c2]
        /\ consec' = IF missing THEN consec
                     ELSE [consec EXCEPT ![b] = IF outcome = "ok" THEN 0
                                                ELSE IF outcome = "badjson" THEN 1
                                                ELSE @ + 1]
        /\ answer' = Answer(a, IF outcome = "ok" /\ ~missing THEN 200 ELSE 500,
                            b, task.trial)
        /\ tasks' = tasks (-) SetToBag({task})
        /\ UNCHANGED <<limiterVars, otherVars>>
        /\ UNCHANGED <<now, cb_call, circuit_breakers, rate_limiters, posts>>

Outcomes == {"ok", "badjson", "error"}

Next ==
    \/ Tick
    \/ \E a \in AgentNames, ok \in BOOLEAN :
          Len(breakers) < MaxBreakers /\ register_agent(a, ok)
    \/ \E a \in AgentNames, o \in Statuses : check_agent_health(a, o)
    \/ \E a \in AgentNames : create_task_begin(a)
    \/ \E task \in BagToSet(tasks), o \in Outcomes : create_task_end(task, o)

Spec == Init /\ [][Next]_vars

\* ------------------------------------------- a CircuitBreaker on its own
\* One breaker, constructed with any failure_threshold, and its three methods
\* called in any order at any time.
BreakerInit ==
    /\ now = 0
    /\ \E th \in 1..MaxThreshold : breakers = <<NewCircuitBreaker(th, DefaultTimeout)>>
    /\ consec = <<0>>
    /\ cb_call = NoCall
    /\ GatewayInit
    /\ NoRateLimiter

call_can_execute ==
    LET r == can_execute(breakers[1], now)
    IN  /\ breakers' = <<r.cb>>
        /\ cb_call' = [op |-> "can_execute", ret |-> r.ret, at |-> now,
                       before |-> breakers[1], after |-> r.cb]
        /\ UNCHANGED <<now, consec, gatewayVars, limiterVars>>

call_record_success ==
    /\ breakers' = <<record_success(breakers[1])>>
    /\ consec' = <<0>>
    /\ cb_call' = [op |-> "record_success", ret |-> FALSE, at |-> now,
                   before |-> breakers[1], after |-> record_success(breakers[1])]
    /\ UNCHANGED <<now, gatewayVars, limiterVars>>

call_record_failure ==
    /\ consec[1] < MaxFailures
    /\ breakers' = <<record_failure(breakers[1], now)>>
    /\ consec' = <<consec[1] + 1>>
    /\ cb_call' = [op |-> "record_failure", ret |-> FALSE, at |-> now,
                   before |-> breakers[1], after |-> record_failure(breakers[1], now)]
    /\ UNCHANGED <<now, gatewayVars, limiterVars>>

BreakerNext ==
    \/ Tick
    \/ call_can_execute
    \/ call_record_success
    \/ call_record_failure

BreakerSpec == BreakerInit /\ [][BreakerNext]_vars

\* ---------------------------------- the gateway with its test's rate limiter
\* test_rate_limiting installs a per-agent window that is at its limit.
set_rate_limiter(a) ==
    /\ a \in DOMAIN registered_agents
    /\ rate_limiters' = Put(rate_limiters, a,
                            [requests |-> TestRateLimit, limit |-> TestRateLimit])
    /\ UNCHANGED <<limiterVars, otherVars>>
    /\ UNCHANGED <<now, breakers, consec, cb_call, registered_agents, circuit_breakers,
                   agent_metrics, tasks, posts, answer>>

RouterLimitNext ==
    \/ \E a \in AgentNames, ok \in BOOLEAN :
          Len(breakers) < MaxBreakers /\ register_agent(a, ok)
    \/ \E a \in AgentNames : set_rate_limiter(a)
    \/ \E a \in AgentNames : create_task_begin(a)
    \/ \E task \in BagToSet(tasks), o \in Outcomes : create_task_end(task, o)

RouterLimitSpec == Init /\ [][RouterLimitNext]_vars

\* ------------------------------------------- registry and health monitor
RegistryNames == {"a1", "a2"}

\* the sequence's elements
Range(q) == {q[i] : i \in DOMAIN q}

\* health_monitoring_task: asyncio.sleep returns and the for loop takes
\* list(self.registered_agents.keys())
monitor_wake ==
    /\ monitor.pc = "sleeping"
    /\ monitor' = IF agent_keys = << >> THEN monitor
                  ELSE [pc |-> "probing", pending |-> agent_keys]
    /\ mon_cycle' = [names |-> agent_keys, probed |-> {}]
    /\ UNCHANGED <<now, breakers, consec, cb_call, limiterVars, agent_keys, reg_event, restVars>>
    /\ UNCHANGED <<registered_agents, circuit_breakers, agent_metrics, rate_limiters,
                   tasks, posts, answer>>

\* a cycle in which the probe that raises ends the for loop
monitor_probe_aborts(outcome) ==
    LET a == Head(monitor.pending)
        left == IF outcome = "unreachable" THEN << >> ELSE Tail(monitor.pending)
    IN  /\ monitor.pc = "probing"
        /\ registered_agents' = IF a \in DOMAIN registered_agents
                                THEN [registered_agents EXCEPT ![a].status = outcome]
                                ELSE registered_agents
        /\ monitor' = IF left = << >> THEN [pc |-> "sleeping", pending |-> << >>]
                      ELSE [pc |-> "probing", pending |-> left]
        /\ mon_cycle' = [mon_cycle EXCEPT !.probed = @ \cup {a}]
        /\ UNCHANGED <<now, breakers, consec, cb_call, limiterVars, agent_keys, reg_event, restVars>>
        /\ UNCHANGED <<circuit_breakers, agent_metrics, rate_limiters, tasks, posts, answer>>

\* one iteration of the for loop: check_agent_health_internal(agent_name) with
\* the outcome of its probe (200: "healthy", another status: "unhealthy", the
\* request raises or times out: "unreachable")
monitor_probe(outcome) ==
    LET a == Head(monitor.pending)
        left == Tail(monitor.pending)
    IN  /\ monitor.pc = "probing"
        /\ registered_agents' = IF a \in DOMAIN registered_agents
                                THEN [registered_agents EXCEPT ![a].status = outcome]
                                ELSE registered_agents
        /\ monitor' = IF left = << >> THEN [pc |-> "sleeping", pending |-> << >>]
                      ELSE [pc |-> "probing", pending |-> left]
        /\ mon_cycle' = [mon_cycle EXCEPT !.probed = @ \cup {a}]
        /\ UNCHANGED <<now, breakers, consec, cb_call, limiterVars, agent_keys, reg_event, restVars>>
        /\ UNCHANGED <<circuit_breakers, agent_metrics, rate_limiters, tasks, posts, answer>>

RegistryNext ==
    \/ \E a \in RegistryNames, ok \in BOOLEAN :
          Len(breakers) < MaxRegistrations /\ register_agent(a, ok)
    \/ \E a \in RegistryNames, o \in Statuses : check_agent_health(a, o)
    \/ monitor_wake
    \/ \E o \in Statuses : monitor_probe(o)

RegistrySpec == Init /\ [][RegistryNext]_vars

\* the event loop resumes the background task whenever its sleep or its probe
\* (timeout 5 s) is over
FairRegistrySpec ==
    /\ RegistrySpec
    /\ WF_vars(monitor_wake)
    /\ WF_vars(\E o \in Statuses : monitor_probe(o))

\* ------------------------------------------------------------ deregister
\* deregister(name): the name leaves the registry; a name that is not there is
\* no error
deregister(a) ==
    /\ registered_agents' = [x \in DOMAIN registered_agents \ {a} |-> registered_agents[x]]
    /\ agent_keys' = SelectSeq(agent_keys, LAMBDA x : x # a)
    /\ reg_event' = [op |-> "deregister", agent |-> a,
                     found |-> a \in DOMAIN registered_agents, probe_ok |-> FALSE,
                     status |-> 200]
    /\ UNCHANGED <<now, breakers, consec, cb_call, limiterVars, monitorVars, restVars>>
    /\ UNCHANGED <<circuit_breakers, agent_metrics, rate_limiters, tasks, posts, answer>>

DeregisterNext ==
    \/ \E a \in RegistryNames, ok \in BOOLEAN :
          Len(breakers) < MaxRegistrations /\ register_agent(a, ok)
    \/ \E a \in RegistryNames : deregister(a)
    \/ \E a \in AgentNames :
          /\ posts[a] < MaxRouted \/ _get_healthy_agent(registered_agents, a) = "none"
          /\ create_task_begin(a)
    \/ \E task \in BagToSet(tasks), o \in Outcomes : create_task_end(task, o)

DeregisterSpec == Init /\ [][DeregisterNext]_vars

\* ------------------------------------------- routing with re-registration
\* An agent that registers again while the gateway routes tasks to it (every
\* start of the agent posts /register_agent).
ReRegisterNext ==
    \/ Tick
    \/ \E a \in AgentNames, ok \in BOOLEAN :
          Len(breakers) < MaxReRegistrations /\ register_agent(a, ok)
    \/ \E a \in AgentNames :
          /\ posts[a] < MaxReRouted \/ _get_healthy_agent(registered_agents, a) = "none"
          /\ create_task_begin(a)
    \/ \E task \in BagToSet(tasks), o \in Outcomes : create_task_end(task, o)

ReRegisterSpec == Init /\ [][ReRegisterNext]_vars

\* ----------------------------------------------------------- LoadBalancer
Urls == {"u1", "u2", "u3"}
ResponseTimes == {0, 7}

\* the candidate lists: instances of one agent, each listed once
CandidateLists ==
    {l \in UNION {[1..n -> Urls] : n \in 0..Cardinality(Urls)} :
        \A i, j \in DOMAIN l : l[i] = l[j] => i = j}

\* f"{agent_name}_{instance['url']}"
instance_id(agent_name, url) == <<agent_name, url>>

\* dict.get(key, default)
Get(f, k, default) == IF k \in DOMAIN f THEN f[k] ELSE default

\* (request_count * 0.7) + (avg_response_time * 0.3), kept exact
LoadScore(agent_name, url) ==
    LET request_count     == Get(request_counts, instance_id(agent_name, url), 0)
        avg_response_time == Get(response_times, instance_id(agent_name, url), Rat(0, 1))
    IN  Rat(7 * request_count * avg_response_time.den + 3 * avg_response_time.num,
            10 * avg_response_time.den)

score_le(score, best_score) == score.num * best_score.den <= best_score.num * score.den

\* score < best_score
score_lt(score, best_score) == score.num * best_score.den < best_score.num * score.den

\* the for loop from its i-th instance on; best = 0 stands for best_instance =
\* None with best_score = float('inf')
RECURSIVE BestFrom(_, _, _, _)
BestFrom(agent_name, available_instances, i, best) ==
    IF i > Len(available_instances) THEN best
    ELSE LET better == \/ best = 0
                       \/ score_lt(LoadScore(agent_name, available_instances[i]),
                                   LoadScore(agent_name, available_instances[best]))
         IN  BestFrom(agent_name, available_instances, i + 1, IF better THEN i ELSE best)

\* the position of the returned instance in available_instances, 0 for None
select_agent_instance(agent_name, available_instances) ==
    IF available_instances = << >> THEN 0
    ELSE IF Len(available_instances) = 1 THEN 1
    ELSE BestFrom(agent_name, available_instances, 1, 0)

RECURSIVE SumOf(_, _)
SumOf(f, keys) == IF keys = {} THEN 0
                  ELSE LET k == CHOOSE x \in keys : TRUE
                       IN  f[k] + SumOf(f, keys \ {k})

gatewayState == <<now, breakers, consec, cb_call, limiterVars, registered_agents,
                  circuit_breakers, agent_metrics, rate_limiters, tasks, posts, answer,
                  agent_keys, reg_event, monitorVars>>

call_select_agent_instance(agent_name, available_instances) ==
    /\ lb_call' = [op |-> "select_agent_instance", agent_name |-> agent_name,
                   available_instances |-> available_instances,
                   ret |-> select_agent_instance(agent_name, available_instances)]
    /\ UNCHANGED <<request_counts, response_times, masterVars, agentVars, gatewayState>>

record_request(agent_name, instance_url, response_time) ==
    LET id            == instance_id(agent_name, instance_url)
        request_count == Get(request_counts, id, 0) + 1
        current_avg   == Get(response_times, id, Rat(0, 1))
    IN  /\ request_counts' = Put(request_counts, id, request_count)
        /\ response_times' = Put(response_times, id,
               IF request_count = 1 THEN Rat(response_time, 1)
               ELSE RollingAverage(current_avg, request_count, response_time))
        /\ lb_call' = [op |-> "record_request"]
        /\ UNCHANGED <<masterVars, agentVars, gatewayState>>

BalancerNext ==
    \/ \E l \in CandidateLists : call_select_agent_instance("a1", l)
    \/ \E u \in Urls, t \in ResponseTimes :
          /\ SumOf(request_counts, DOMAIN request_counts) < MaxRecorded
          /\ record_request("a1", u, t)

BalancerSpec == Init /\ [][BalancerNext]_vars

\* ------------------------------------------------------------------ cache
\* The redis client of an agent is None ("none"), a client whose calls answer
\* ("up") or a client whose calls raise ("down": no server, connection lost).
\* The store maps a key to the data cached under it; entries leave it when
\* their ttl is over.
CacheKeys == {"k1"}
CacheData == {"d1", "d2"}
Categories == {"instacart_products", "unlisted"}
AgentCardName == "agent"
UserPreferencesKey == "user_preferences_anonymous"

\* redis.get(key): raises, or answers the value or None
redis_get(c, key) ==
    [raises |-> c.redis = "down",
     value  |-> IF key \in DOMAIN c.store THEN c.store[key] ELSE "None"]

\* redis.setex(key, ttl, value): raises, or stores the value
redis_setex(c, key, value) ==
    [raises |-> c.redis = "down",
     cache  |-> [c EXCEPT !.store = Put(c.store, key, value)]]

\* what a cache operation yields: its return value, whether it raised, and the
\* agent as it leaves it
Yield(ret, raised, c) == [ret |-> ret, raised |-> raised, cache |-> c]

\* get_cached_result with no except block around the read
get_cached_result_uncaught(c, cache_key) ==
    LET r == redis_get(c, <<AgentCardName, cache_key>>)
    IN  IF r.raises THEN Yield("None", TRUE, c)
        ELSE IF r.value # "None"
        THEN Yield(r.value, FALSE, [c EXCEPT !.cache_hits = @ + 1])
        ELSE Yield("None", FALSE, [c EXCEPT !.cache_misses = @ + 1])

\* BaseAgent.get_cached_result
get_cached_result(c, cache_key) ==
    IF c.redis = "none" THEN Yield("None", FALSE, c)
    ELSE LET r == redis_get(c, <<AgentCardName, cache_key>>)
         IN  IF r.raises THEN Yield("None", FALSE, c)
             ELSE IF r.value # "None"
             THEN Yield(r.value, FALSE, [c EXCEPT !.cache_hits = @ + 1])
             ELSE Yield("None", FALSE, [c EXCEPT !.cache_misses = @ + 1])

\* BaseAgent.cache_result
cache_result(c, cache_key, data) ==
    IF c.redis = "none" THEN Yield("None", FALSE, c)
    ELSE LET r == redis_setex(c, <<AgentCardName, cache_key>>, data)
         IN  IF r.raises THEN Yield("None", FALSE, c)
             ELSE Yield("None", FALSE, r.cache)

\* CacheManager.get_with_strategy
get_with_strategy(c, key, category) ==
    IF c.redis = "none" THEN Yield("None", FALSE, c)
    ELSE LET r == redis_get(c, <<category, key>>)
         IN  IF r.raises THEN Yield("None", FALSE, c)
             ELSE Yield(r.value, FALSE, c)

\* CacheManager.set_with_strategy
set_with_strategy(c, key, data, category) ==
    IF c.redis = "none" THEN Yield("None", FALSE, c)
    ELSE LET r == redis_setex(c, <<category, key>>, data)
         IN  IF r.raises THEN Yield("None", FALSE, c)
             ELSE Yield("None", FALSE, r.cache)

\* _learn_from_interaction: the interaction is appended to the user's
\* preferences, which are then cached
_learn_from_interaction(c) ==
    LET c1 == [c EXCEPT !.interactions = @ + 1]
    IN  cache_result(c1, UserPreferencesKey, "preferences")

\* ------------------------------------------- master agent: plan_meals
Scores == {60, 100}

\* how a delegation ends.  "ok": the gateway passes on the agent's answer
\* {"success": true, "result": {...}}, with or without the score the slot is read
\* for; "raised": send_message_to_agent raises (transport error, timeout, a body
\* that is no JSON); "failed": the answer has no 'result' key, as the agent's
\* {"success": false, "error": ...} and the gateway's {"detail": ...} of a 404,
\* 503 or 500
Fates == {"ok", "raised", "failed"}

\* _delegate_to_agent: result.get('result', {}), or the error record of the
\* except block
_delegate_to_agent(fate, score) ==
    IF fate = "ok" THEN Slot("data", score)
    ELSE IF fate = "raised" THEN Slot("error", None)
    ELSE Slot("empty", None)

\* dict.get(key, default) on a slot's score
ScoreOr(slot, default) == IF slot.score = None THEN default ELSE slot.score

\* (budget_score + recipe_score + shopping_score) / 3, in hundredths
_calculate_optimization_score(budget_analysis, recipe_result, shopping_result) ==
    Rat(ScoreOr(budget_analysis, DefaultBudgetScore)
           + ScoreOr(recipe_result, DefaultRecipeScore)
           + ScoreOr(shopping_result, DefaultShoppingScore), 3)

masterFrame == <<balancerVars, gatewayState, selfreg>>

\* orchestrate_meal_planning up to asyncio.gather: both delegations are started
orchestrate_begin ==
    /\ orch.pc = "idle"
    /\ orch' = [NoPlan EXCEPT !.pc = "parallel", !.budget = Pending, !.nutrition = Pending]
    /\ UNCHANGED <<adapt, cache, masterFrame>>

\* one of the two gathered delegations ends; gather returns when both have,
\* and the pricing delegation is started
branch_done(branch, fate, score) ==
    /\ orch.pc = "parallel"
    /\ orch[branch] = Pending
    /\ LET other == IF branch = "budget" THEN "nutrition" ELSE "budget"
       IN  orch' = [orch EXCEPT ![branch] = _delegate_to_agent(fate, score),
                                !.fate[branch] = fate,
                                !.pricing = IF orch[other] = Pending THEN NoSlot ELSE Pending,
                                !.pc = IF orch[other] = Pending THEN "parallel"
                                       ELSE "pricing"]
    /\ UNCHANGED <<adapt, cache, masterFrame>>

\* the sequential delegations: monitor_deals, create_budget_meal_plan,
\* create_shopping_list
step_done(step, fate, score) ==
    /\ orch.pc = step
    /\ step \in {"pricing", "recipe", "shopping"}
    /\ LET next == IF step = "pricing" THEN "recipe"
                   ELSE IF step = "recipe" THEN "shopping" ELSE "respond"
       IN  orch' = IF next = "respond"
                   THEN [orch EXCEPT ![step] = _delegate_to_agent(fate, score),
                                     !.fate[step] = fate, !.pc = next]
                   ELSE [orch EXCEPT ![step] = _delegate_to_agent(fate, score),
                                     !.fate[step] = fate, !.pc = next,
                                     ![next] = Pending]
    /\ UNCHANGED <<adapt, cache, masterFrame>>

\* _generate_bruno_response (call_gemini raises what the API raises),
\* _learn_from_interaction and the return
orchestrate_end(gemini_ok) ==
    LET l == _learn_from_interaction(cache)
    IN  /\ orch.pc = "respond"
        /\ orch' = IF gemini_ok /\ ~l.raised
                   THEN [orch EXCEPT !.pc = "returned",
                           !.result = [success |-> TRUE,
                                       meal_plan |-> orch.recipe,
                                       shopping_experience |-> orch.shopping,
                                       budget_analysis |-> orch.budget,
                                       nutrition_analysis |-> orch.nutrition,
                                       optimization_score |->
                                           _calculate_optimization_score(
                                               orch.budget, orch.recipe, orch.shopping)]]
                   ELSE [orch EXCEPT !.pc = "raised"]
        /\ cache' = IF gemini_ok
                    THEN [l.cache EXCEPT !.call = [op |-> "_learn_from_interaction",
                                                   key |-> <<AgentCardName, UserPreferencesKey>>,
                                                   ret |-> l.ret, raised |-> l.raised]]
                    ELSE cache
        /\ UNCHANGED <<adapt, masterFrame>>

OrchNext ==
    \/ orchestrate_begin
    \/ \E b \in {"budget", "nutrition"}, f \in Fates, sc \in Scores \cup {None} :
          (f = "ok" \/ sc = None) /\ branch_done(b, f, sc)
    \/ \E st \in {"pricing", "recipe", "shopping"}, f \in Fates, sc \in Scores \cup {None} :
          (f = "ok" \/ sc = None) /\ step_done(st, f, sc)
    \/ \E ok \in BOOLEAN : orchestrate_end(ok)

OrchSpec == Init /\ [][OrchNext]_vars

\* --------------------------------------- master agent: adapt_meal_plan
\* a meal plan, as the ingredient names of its recipes
MealPlans == {<< >>, <<"pasta">>, <<"pasta", "rice">>}
Texts == {"t1", "t2"}

_extract_products_from_meal_plan(meal_plan) == meal_plan

\* the stub answers changes_required = False whatever it is given
_identify_needed_adaptations(current_meal_plan, current_pricing, reason) ==
    [changes_required |-> FALSE, reason |-> reason]

still_optimal_result_adapted(bruno_response) ==
    [success |-> TRUE, adaptations_made |-> TRUE, bruno_response |-> bruno_response,
     status |-> "meal_plan_still_optimal"]

\* the dict returned by the else branch
still_optimal_result(bruno_response) ==
    [success |-> TRUE, adaptations_made |-> FALSE, bruno_response |-> bruno_response,
     status |-> "meal_plan_still_optimal"]

adaptFrame == <<orch, balancerVars, gatewayState, agentVars>>

\* adapt_meal_plan_real_time up to the await of the search_products delegation
adapt_begin(meal_plan) ==
    /\ adapt.pc \in {"idle", "returned", "raised"}
    /\ adapt' = [NoAdaptation EXCEPT
                    !.pc = "pricing",
                    !.current_meal_plan = meal_plan,
                    !.supplied = meal_plan,
                    !.current_pricing = Pending,
                    !.delegations = <<[agent |-> "instacart_integration_agent",
                                       action |-> "search_products",
                                       query |-> _extract_products_from_meal_plan(meal_plan)]>>,
                    !.calls = adapt.calls + 1,
                    !.prev = IF adapt.pc = "returned"
                             THEN [calls |-> adapt.calls, supplied |-> adapt.supplied,
                                   current_pricing |-> adapt.current_pricing,
                                   result |-> adapt.result]
                             ELSE adapt.prev]
    /\ UNCHANGED adaptFrame

\* the pricing delegation ends and _identify_needed_adaptations decides; with
\* changes_required the adapt_recipes delegation is started, otherwise
\* call_gemini is awaited
adapt_priced(fate, price) ==
    /\ adapt.pc = "pricing"
    /\ LET current_pricing == _delegate_to_agent(fate, price)
           adaptations_needed == _identify_needed_adaptations(
                                     adapt.current_meal_plan, current_pricing, "general_update")
       IN  adapt' = IF adaptations_needed.changes_required
                    THEN [adapt EXCEPT
                            !.pc = "recipe", !.current_pricing = current_pricing,
                            !.changes_required = TRUE,
                            !.delegations = Append(@, [agent |-> "recipe_chef_agent",
                                                       action |-> "adapt_recipes",
                                                       query |-> << >>])]
                    ELSE [adapt EXCEPT
                            !.pc = "confirm", !.current_pricing = current_pricing,
                            !.changes_required = FALSE]
    /\ UNCHANGED adaptFrame

\* call_gemini answers, or raises what the API raises
adapt_end(gemini_ok, bruno_response) ==
    /\ adapt.pc = "confirm"
    /\ adapt' = IF gemini_ok
                THEN [adapt EXCEPT !.pc = "returned",
                                   !.result = still_optimal_result(bruno_response)]
                ELSE [adapt EXCEPT !.pc = "raised"]
    /\ UNCHANGED adaptFrame

AdaptNext ==
    \/ \E p \in MealPlans : adapt.calls < MaxAdaptCalls /\ adapt_begin(p)
    \/ \E f \in Fates, price \in Scores \cup {None} :
          (f = "ok" \/ price = None) /\ adapt_priced(f, price)
    \/ \E ok \in BOOLEAN, t \in Texts : (ok \/ t = "t1") /\ adapt_end(ok, t)

AdaptSpec == Init /\ [][AdaptNext]_vars

\* ------------------------------------------------------- cache in use
cacheFrame == <<balancerVars, adapt, gatewayState, selfreg>>

\* BaseAgent.__init__: _initialize_redis answers a client or None, the metrics
\* start at 0; what the store holds is not the agent's
BaseAgent_init(client) ==
    /\ cache' = [NoCache EXCEPT !.redis = client, !.store = cache.store]
    /\ UNCHANGED <<orch, cacheFrame>>

\* the server behind the client goes away or comes back
redis_availability(mode) ==
    /\ cache.redis \in {"up", "down"}
    /\ cache.redis # mode
    /\ cache' = [cache EXCEPT !.redis = mode]
    /\ UNCHANGED <<orch, cacheFrame>>

\* the ttl of an entry is over
expire(key) ==
    /\ key \in DOMAIN cache.store
    /\ cache' = [cache EXCEPT !.store = [k \in DOMAIN cache.store \ {key} |-> cache.store[k]]]
    /\ UNCHANGED <<orch, cacheFrame>>

Called(op, key, y) ==
    [y.cache EXCEPT !.call = [op |-> op, key |-> key, ret |-> y.ret, raised |-> y.raised]]

call_get_cached_result(cache_key) ==
    /\ cache' = Called("get_cached_result", <<AgentCardName, cache_key>>,
                       get_cached_result(cache, cache_key))
    /\ UNCHANGED <<orch, cacheFrame>>

call_cache_result(cache_key, data) ==
    /\ cache' = Called("cache_result", <<AgentCardName, cache_key>>,
                       cache_result(cache, cache_key, data))
    /\ UNCHANGED <<orch, cacheFrame>>

call_get_with_strategy(key, category) ==
    /\ cache' = Called("get_with_strategy", <<category, key>>,
                       get_with_strategy(cache, key, category))
    /\ UNCHANGED <<orch, cacheFrame>>

call_set_with_strategy(key, data, category) ==
    /\ cache' = Called("set_with_strategy", <<category, key>>,
                       set_with_strategy(cache, key, data, category))
    /\ UNCHANGED <<orch, cacheFrame>>

CacheNext ==
    \/ \E client \in {"none", "up", "down"} : BaseAgent_init(client)
    \/ \E mode \in {"up", "down"} : redis_availability(mode)
    \/ \E key \in DOMAIN cache.store : expire(key)
    \/ \E k \in CacheKeys :
          cache.cache_hits + cache.cache_misses < MaxCacheReads /\ call_get_cached_result(k)
    \/ \E k \in CacheKeys, d \in CacheData : call_cache_result(k, d)
    \/ \E k \in CacheKeys, cat \in Categories : call_get_with_strategy(k, cat)
    \/ \E k \in CacheKeys, d \in CacheData, cat \in Categories :
          call_set_with_strategy(k, d, cat)
    \/ orchestrate_begin
    \/ \E b \in {"budget", "nutrition"} : branch_done(b, "ok", None)
    \/ \E st \in {"pricing", "recipe", "shopping"} : step_done(st, "ok", None)
    \/ \E ok \in BOOLEAN : orchestrate_end(ok)

CacheSpec == Init /\ [][CacheNext]_vars

\* ------------------------------------- an agent registers with the gateway
\* how client.post to /register_agent ends: status 200, another status (the
\* gateway answers 400 when its probe of the agent fails), or an exception
\* (connection refused, timeout after 10 s)
PostOutcomes == {"200", "non200", "raised"}

selfregFrame == <<cache, masterVars, balancerVars, gatewayState>>

\* the startup event: _register_agent_with_gateway up to the first client.post
selfreg_begin ==
    /\ selfreg.pc = "idle"
    /\ selfreg' = [selfreg EXCEPT !.pc = "posting", !.attempt = 0,
                                  !.retry_delay = InitialRetryDelay]
    /\ UNCHANGED selfregFrame

\* client.post ends, up to the next await or the return.  attempts, delays:
\* history, how each attempt ended and how long the loop slept before the next
selfreg_answered(outcome) ==
    /\ selfreg.pc = "posting"
    /\ selfreg' =
          IF outcome = "200"
          THEN [selfreg EXCEPT !.pc = "returned", !.attempts = Append(@, outcome)]
          ELSE IF outcome = "raised" /\ selfreg.attempt < max_retries - 1
          THEN [selfreg EXCEPT !.pc = "sleeping", !.attempts = Append(@, outcome)]
          ELSE IF selfreg.attempt + 1 < max_retries
          THEN [selfreg EXCEPT !.pc = "posting", !.attempt = @ + 1,
                               !.attempts = Append(@, outcome),
                               !.delays = Append(@, 0)]
          ELSE [selfreg EXCEPT !.pc = "gave_up", !.attempts = Append(@, outcome)]
    /\ UNCHANGED selfregFrame

\* asyncio.sleep(retry_delay) returns, up to the next client.post
selfreg_wake ==
    /\ selfreg.pc = "sleeping"
    /\ selfreg' = [selfreg EXCEPT !.pc = "posting", !.attempt = @ + 1,
                                  !.retry_delay = 2 * @,
                                  !.delays = Append(@, selfreg.retry_delay),
                                  !.slept = TRUE]
    /\ UNCHANGED selfregFrame

SelfRegNext ==
    \/ selfreg_begin
    \/ \E o \in PostOutcomes : selfreg_answered(o)
    \/ selfreg_wake

SelfRegSpec == Init /\ [][SelfRegNext]_vars

\* the startup event is delivered; client.post has a timeout and asyncio.sleep
\* ends
FairSelfRegSpec ==
    /\ SelfRegSpec
    /\ WF_vars(selfreg_begin)
    /\ WF_vars(\E o \in PostOutcomes : selfreg_answered(o))
    /\ WF_vars(selfreg_wake)

\* ---------------------------------------------------------- RateLimiter
Callers == 1..MaxCallers

\* [req_time for req_time in reqs if t - req_time < 1 hour]
Prune(reqs, t) == SelectSeq(reqs, LAMBDA r : t - r < HourSeconds)

RECURSIVE MinOf(_)
MinOf(reqs) == IF Len(reqs) = 1 THEN reqs[1]
               ELSE LET m == MinOf(Tail(reqs))
                    IN  IF reqs[1] <= m THEN reqs[1] ELSE m

\* the wait without the hour added
WaitTime_no_hour(reqs, t) == MinOf(reqs) - t

\* (oldest_request + timedelta(hours=1) - now).total_seconds()
WaitTime(reqs, t) == MinOf(reqs) + HourSeconds - t

\* seen, oldest: history, the window as the call found it
IdleAcquire == [pc |-> "idle", now |-> 0, wake |-> 0, seen |-> 0, oldest |-> 0]

\* the admission times that lie inside the trailing hour at time t
InWindow(times, t) == SelectSeq(times, LAMBDA a : t - a < HourSeconds)

RateLimiterInit ==
    /\ now = 0
    /\ breakers = << >>
    /\ consec = << >>
    /\ cb_call = NoCall
    /\ GatewayInit
    /\ requests_per_hour \in 1..MaxLimit
    /\ requests = << >>
    /\ acq = [c \in Callers |-> IdleAcquire]
    /\ rl_event = [op |-> "none", caller |-> 0, stamp |-> 0, at |-> 0, seen |-> 0,
                   oldest |-> 0, waited |-> FALSE, admitted |-> << >>]

LimiterTick ==
    /\ now + LimiterTickSeconds <= LimiterMaxTime
    /\ now' = now + LimiterTickSeconds
    /\ rl_event' = [rl_event EXCEPT !.admitted = InWindow(@, now')]
    /\ UNCHANGED <<breakers, consec, cb_call, gatewayVars, requests_per_hour, requests, acq>>

\* acquire() up to the await of asyncio.sleep, or to its return when it does
\* not sleep
acquire_begin(c) ==
    LET pruned == Prune(requests, now)
    IN  /\ acq[c].pc = "idle"
        /\ \A c2 \in Callers : c2 < c => acq[c2].pc # "idle"
        /\ Len(rl_event.admitted) + Cardinality({c2 \in Callers : acq[c2].pc # "idle"})
               < MaxAcquires
        /\ IF Len(pruned) >= requests_per_hour /\ WaitTime(pruned, now) > 0
           THEN /\ now + WaitTime(pruned, now) <= LimiterMaxTime
                /\ requests' = pruned
                /\ acq' = [acq EXCEPT ![c] =
                       [pc |-> "sleeping", now |-> now,
                        wake |-> now + WaitTime(pruned, now),
                        seen |-> Len(pruned), oldest |-> MinOf(pruned)]]
                /\ rl_event' = [rl_event EXCEPT !.op = "sleep", !.caller = c, !.stamp = now,
                                   !.at = now, !.seen = Len(pruned),
                                   !.oldest = MinOf(pruned), !.waited = TRUE]
           ELSE /\ requests' = Append(pruned, now)
                /\ acq' = acq
                /\ rl_event' = [op |-> "admit", caller |-> c, stamp |-> now, at |-> now,
                                seen |-> Len(pruned), oldest |-> 0, waited |-> FALSE,
                                admitted |-> Append(rl_event.admitted, now)]
        /\ UNCHANGED <<now, breakers, consec, cb_call, gatewayVars, requests_per_hour>>

\* acquire() from the return of asyncio.sleep
acquire_end(c) ==
    /\ acq[c].pc = "sleeping"
    /\ now >= acq[c].wake
    /\ requests' = Append(requests, acq[c].now)
    /\ acq' = [acq EXCEPT ![c] = IdleAcquire]
    /\ rl_event' = [op |-> "admit", caller |-> c, stamp |-> acq[c].now, at |-> now,
                    seen |-> acq[c].seen, oldest |-> acq[c].oldest, waited |-> TRUE,
                    admitted |-> Append(rl_event.admitted, now)]
    /\ UNCHANGED <<now, breakers, consec, cb_call, gatewayVars, requests_per_hour>>

RateLimiterNext ==
    \/ LimiterTick
    \/ \E c \in Callers : acquire_begin(c)
    \/ \E c \in Callers : acquire_end(c)

RateLimiterSpec == RateLimiterInit /\ [][RateLimiterNext]_vars

\* the event loop runs a coroutine whose sleep is over, and time passes
FairRateLimiterSpec ==
    /\ RateLimiterSpec
    /\ WF_vars(LimiterTick)
    /\ \A c \in Callers : WF_vars(acquire_end(c))

\* ================================================================ claims
Healthy(a) == _get_healthy_agent(registered_agents, a) # "none"

WithinTimeout(cb, t) ==
    cb.last_failure_time # None /\ t - cb.last_failure_time <= cb.timeout

\* C1: every change of a breaker's state is CLOSED->OPEN, OPEN->HALF_OPEN,
\* HALF_OPEN->CLOSED or HALF_OPEN->OPEN; OPEN never becomes CLOSED in one step.
LegalTransition(x, y) ==
    \/ x = y
    \/ <<x, y>> \in {<<"CLOSED", "OPEN">>, <<"OPEN", "HALF_OPEN">>,
                     <<"HALF_OPEN", "CLOSED">>, <<"HALF_OPEN", "OPEN">>}

C1_BreakerTransitions ==
    [][\A b \in DOMAIN breakers :
          LegalTransition(breakers[b].state, breakers'[b].state)]_vars

\* C2 as stated: a create_task for a healthy agent whose breaker refuses, or whose
\* breaker has recorded failure_threshold consecutive failures, answers 503 and
\* sends no HTTP request.
C2_RejectedAfterThreshold ==
    [][\A a \in AgentNames :
          (/\ create_task_begin(a)
           /\ Healthy(a)
           /\ \/ ~can_execute(breakers[circuit_breakers[a]], now).ret
              \/ consec[circuit_breakers[a]] >= DefaultFailureThreshold)
          => /\ answer' = Answer(a, 503, circuit_breakers[a], FALSE)
             /\ posts' = posts
             /\ tasks' = tasks]_vars

\* C2 amended: the same, the call after the threshold-th consecutive failure
\* being made no later than timeout seconds after that failure.
C2_RejectedWithinTimeout ==
    [][\A a \in AgentNames :
          (/\ create_task_begin(a)
           /\ Healthy(a)
           /\ \/ ~can_execute(breakers[circuit_breakers[a]], now).ret
              \/ /\ consec[circuit_breakers[a]] >= DefaultFailureThreshold
                 /\ WithinTimeout(breakers[circuit_breakers[a]], now))
          => /\ answer' = Answer(a, 503, circuit_breakers[a], FALSE)
             /\ posts' = posts
             /\ tasks' = tasks]_vars

\* the sixth call, after five consecutive failed dispatches, was answered 503
C2_Witness ==
    \E a \in DOMAIN registered_agents :
        /\ answer = Answer(a, 503, circuit_breakers[a], FALSE)
        /\ consec[circuit_breakers[a]] = DefaultFailureThreshold
        /\ posts[a] = DefaultFailureThreshold

\* C3: after failure_threshold record_failure calls with no record_success in
\* between the state is OPEN and can_execute() before the timeout elapses is
\* false; with fewer the breaker is CLOSED and can_execute() is true.
C3_OpensAtThreshold ==
    \A b \in DOMAIN breakers :
        LET cb == breakers[b] IN
        /\ consec[b] < cb.failure_threshold
               => cb.state = "CLOSED" /\ can_execute(cb, now).ret
        /\ (consec[b] >= cb.failure_threshold /\ WithinTimeout(cb, now))
               => /\ cb.state = "OPEN"
                  /\ ~can_execute(cb, now).ret
                  /\ can_execute(cb, now).cb.state = "OPEN"

C3_Witness ==
    /\ cb_call.op = "can_execute"
    /\ ~cb_call.ret
    /\ consec[1] = breakers[1].failure_threshold
    /\ breakers[1].failure_threshold > 1

\* C4: in HALF_OPEN exactly one trial is admitted until its verdict is recorded.
C4_OneTrial ==
    \A b \in DOMAIN breakers :
        breakers[b].state = "HALF_OPEN"
            => BagCardinality([task \in {x \in BagToSet(tasks) : x.cb = b /\ x.trial}
                                   |-> CopiesIn(task, tasks)]) <= 1

\* C5: can_execute() on an OPEN breaker is false and leaves it OPEN while
\* now - last_failure_time <= timeout; it is true only when
\* now - last_failure_time > timeout, and the breaker is then HALF_OPEN.
C5_OpenUntilTimeout ==
    (cb_call.op = "can_execute" /\ cb_call.before.state = "OPEN")
        => /\ WithinTimeout(cb_call.before, cb_call.at)
               => ~cb_call.ret /\ cb_call.after.state = "OPEN"
           /\ cb_call.ret
               => /\ cb_call.at - cb_call.before.last_failure_time > cb_call.before.timeout
                  /\ cb_call.after.state = "HALF_OPEN"
                  /\ breakers[1].state = "HALF_OPEN"

C5_Witness ==
    /\ cb_call.op = "can_execute"
    /\ cb_call.before.state = "OPEN"
    /\ cb_call.ret
    /\ breakers[1].state = "HALF_OPEN"

\* C6: a trial admitted in HALF_OPEN that succeeds leaves the breaker CLOSED with
\* failure_count = 0, and the next create_task is admitted.
C6_TrialSuccessCloses ==
    (answer.op = "create_task" /\ answer.status = 200 /\ answer.trial)
        => /\ breakers[answer.cb].state = "CLOSED"
           /\ breakers[answer.cb].failure_count = 0
           /\ can_execute(breakers[answer.cb], now).ret

C6_Witness ==
    /\ answer.op = "create_task" /\ answer.status = 200 /\ answer.trial
    /\ breakers[answer.cb].state = "CLOSED"
    /\ posts[answer.agent] = DefaultFailureThreshold + 1

\* C7: record_failure on a HALF_OPEN breaker leaves it OPEN with
\* last_failure_time the time of the call, whatever failure_threshold is.
C7_TrialFailureReopens ==
    (cb_call.op = "record_failure" /\ cb_call.before.state = "HALF_OPEN")
        => /\ breakers[1].state = "OPEN"
           /\ breakers[1].last_failure_time = cb_call.at

C7_Witness ==
    /\ cb_call.op = "record_failure"
    /\ cb_call.before.state = "HALF_OPEN"
    /\ breakers[1].state = "OPEN"
    /\ breakers[1].failure_threshold = 1

\* C10: a create_task for a healthy agent whose rate limiter is at its limit
\* answers 429 and dispatches nothing.
AtLimit(a) ==
    a \in DOMAIN rate_limiters /\ rate_limiters[a].requests >= rate_limiters[a].limit

C10_RateLimitRejects ==
    [][\A a \in AgentNames :
          (create_task_begin(a) /\ Healthy(a) /\ AtLimit(a))
          => /\ answer'.status = 429
             /\ posts' = posts
             /\ tasks' = tasks]_vars

\* C8: at every moment at most requests_per_hour admissions (returns of
\* acquire()) lie inside the trailing hour.
C8_WindowLimit ==
    Len(InWindow(rl_event.admitted, now)) <= requests_per_hour

\* C9: a call that finds fewer than requests_per_hour requests in the window
\* returns without waiting, one that finds the window full waits until the
\* oldest of them has left the window; every call that returns is recorded, and
\* every call returns.
C9_Admitted ==
    /\ rl_event.op \in {"admit", "sleep"}
           => (rl_event.waited <=> rl_event.seen >= requests_per_hour)
    /\ rl_event.op = "admit"
           => /\ Len(requests) > 0
              /\ requests[Len(requests)] = rl_event.stamp
              /\ rl_event.waited => rl_event.at - rl_event.oldest >= HourSeconds

C9_AcquireAdmitsOrDelays ==
    /\ []C9_Admitted
    /\ \A c \in Callers : (acq[c].pc = "sleeping") ~> (acq[c].pc = "idle")

\* the call after the first requests_per_hour ones has waited and is recorded
C9_Witness ==
    /\ rl_event.op = "admit"
    /\ rl_event.waited
    /\ rl_event.seen = requests_per_hour
    /\ Len(requests) = requests_per_hour + 1
    /\ requests_per_hour = MaxLimit

\* ---------------------------------------------------------------------------
\* C11: routing a task never raises past the handler: whatever the outcome
\* (agent not registered or not healthy, circuit open, transport error, timeout,
\* success), create_task returns a result value instead of raising.
C11_NeverRaises ==
    answer.op = "create_task" => ~answer.raised

\* ---------------------------------------------------------------------------
\* C12: create_task for a name that is not registered, or whose registry
\* status is 'unhealthy' or 'unreachable', is answered 404, sends no request and
\* leaves the breakers, the metrics and the registry as they were; a dispatch
\* goes only to an agent whose status is 'healthy'.
StatusHealthy(a) ==
    a \in DOMAIN registered_agents /\ registered_agents[a].status = "healthy"

C12_NotFoundWithoutEffect ==
    [][\A a \in AgentNames :
          /\ (create_task_begin(a) /\ ~StatusHealthy(a))
                => /\ answer'.op = "create_task" /\ answer'.status = 404
                   /\ posts' = posts /\ tasks' = tasks
                   /\ breakers' = breakers /\ circuit_breakers' = circuit_breakers
                   /\ agent_metrics' = agent_metrics
                   /\ registered_agents' = registered_agents
          /\ posts'[a] # posts[a] => StatusHealthy(a)]_vars

\* a registered agent that failed a health check was refused with 404 after it
\* had been served before
C12_Witness ==
    \E a \in AgentNames :
        /\ a \in DOMAIN registered_agents
        /\ registered_agents[a].status \in {"unhealthy", "unreachable"}
        /\ answer.op = "create_task" /\ answer.agent = a /\ answer.status = 404
        /\ posts[a] >= 1

C15_CycleCovers ==
    /\ Range(mon_cycle.names) = mon_cycle.probed \cup Range(monitor.pending)
    /\ monitor.pc = "sleeping" => monitor.pending = << >>
    /\ monitor.pc = "probing" => monitor.pending # << >>

C15_EveryAgentProbed ==
    /\ []C15_CycleCovers
    /\ [][\A o \in Statuses :
            monitor_probe(o) =>
                registered_agents'[Head(monitor.pending)].status = o]_vars
    /\ \A a \in RegistryNames :
          /\ [](a \in DOMAIN registered_agents => <>(a \notin mon_cycle.probed))
          /\ [](a \in DOMAIN registered_agents => <>(a \in mon_cycle.probed))

\* a cycle over a1 and a2 has ended: a1's probe raised, a2 was probed after it
C15_Witness ==
    /\ monitor.pc = "sleeping"
    /\ mon_cycle.names = <<"a1", "a2">>
    /\ mon_cycle.probed = {"a1", "a2"}
    /\ registered_agents["a1"].status = "unreachable"
    /\ registered_agents["a2"].status = "healthy"

TenTimesScore(agent_name, url) ==
    LET id  == instance_id(agent_name, url)
        rc  == IF id \in DOMAIN request_counts THEN request_counts[id] ELSE 0
        avg == IF id \in DOMAIN response_times THEN response_times[id] ELSE Rat(0, 1)
    IN  [num |-> 7 * rc * avg.den + 3 * avg.num, den |-> avg.den]

Below(x, y) == x.num * y.den < y.num * x.den

C16_Selected ==
    (lb_call.op = "select_agent_instance" /\ lb_call.available_instances # << >>)
        => LET l == lb_call.available_instances
               n == lb_call.agent_name
               r == lb_call.ret
           IN  /\ r \in 1..Len(l)
               /\ Len(l) = 1 => r = 1
               /\ \A i \in 1..Len(l) :
                     ~Below(TenTimesScore(n, l[i]), TenTimesScore(n, l[r]))
               /\ \A i \in 1..(r - 1) :
                     Below(TenTimesScore(n, l[r]), TenTimesScore(n, l[i]))

C16_SelectsLeastLoaded ==
    /\ []C16_Selected
    /\ [][lb_call'.op = "select_agent_instance"
            => request_counts' = request_counts /\ response_times' = response_times]_vars

\* three candidates, the first of them more loaded than the other two, which
\* have the same score: the second was returned
C16_Witness ==
    /\ lb_call.op = "select_agent_instance"
    /\ Len(lb_call.available_instances) = 3
    /\ lb_call.ret = 2
    /\ LET l == lb_call.available_instances
       IN  /\ Below(TenTimesScore("a1", l[2]), TenTimesScore("a1", l[1]))
           /\ ~Below(TenTimesScore("a1", l[2]), TenTimesScore("a1", l[3]))
           /\ ~Below(TenTimesScore("a1", l[3]), TenTimesScore("a1", l[2]))
           /\ Get(request_counts, instance_id("a1", l[2]), 0) >= 1

\* ---------------------------------------------------------------------------
\* C17: when exactly one of the two parallel branches of
\* orchestrate_meal_planning (budget analysis, nutrition analysis) fails, the
\* workflow still runs pricing, plan generation and list assembly, returns a
\* response with the surviving branch's data, and marks it degraded.
BranchFailed(k) == orch.fate[k] \in {"raised", "failed"}

C17_DegradedMarked ==
    (orch.pc = "returned" /\ (BranchFailed("budget") # BranchFailed("nutrition")))
        => /\ \A k \in {"pricing", "recipe", "shopping"} : orch.fate[k] # "none"
           /\ orch.result.success
           /\ ~BranchFailed("budget")
                 => orch.result.budget_analysis = orch.budget /\ orch.budget.kind = "data"
           /\ ~BranchFailed("nutrition")
                 => /\ orch.result.nutrition_analysis = orch.nutrition
                    /\ orch.nutrition.kind = "data"
           /\ "degraded" \in DOMAIN orch.result
           /\ orch.result.degraded = TRUE

\* ---------------------------------------------------------------------------
\* C18: the failure of a delegated sub-task is recorded as an error value in the
\* sub-task's result slot and never raised; the parallel join waits for both
\* branches, and a failed branch stops neither its sibling nor the later steps.
C18_FailureRecorded ==
    /\ \A k \in {"budget", "nutrition", "pricing", "recipe", "shopping"} :
          BranchFailed(k) => orch[k].kind = "error"
    /\ orch.pc \notin {"idle", "parallel"}
          => orch.fate["budget"] # "none" /\ orch.fate["nutrition"] # "none"
    /\ orch.pc \in {"respond", "returned"}
          => \A k \in {"pricing", "recipe", "shopping"} : orch.fate[k] # "none"

\* ---------------------------------------------------------------------------
\* C19: the optimization score of the plan is the arithmetic mean of exactly the
\* sub-scores (budget, recipe, shopping) that their sub-tasks produced: a slot
\* without a score is left out of the sum and of the divisor.
AvailableScores ==
    LET have(slot) == IF slot.score = None THEN 0 ELSE 1
    IN  [sum   |-> ScoreOr(orch.budget, 0) + ScoreOr(orch.recipe, 0)
                      + ScoreOr(orch.shopping, 0),
         count |-> have(orch.budget) + have(orch.recipe) + have(orch.shopping)]

C19_MeanOfAvailable ==
    (orch.pc = "returned" /\ AvailableScores.count > 0)
        => orch.result.optimization_score
              = Rat(AvailableScores.sum, AvailableScores.count)

\* ---------------------------------------------------------------------------
\* C20: when adapt_meal_plan_real_time finds that no change is required it has
\* queried pricing once, delegates neither plan generation nor list assembly,
\* leaves the supplied meal plan as it was and returns success with
\* adaptations_made = false and the still-optimal status; a repeated call with
\* the same plan and the same pricing returns the same.
Verdict(result) == <<result.success, result.adaptations_made, result.status>>

Unavailable(c) == c.redis \in {"none", "down"}

C21_CacheDegrades ==
    /\ [](~cache.call.raised)
    /\ [][\A k \in CacheKeys, d \in CacheData, cat \in Categories :
            /\ (Unavailable(cache) /\ (call_get_cached_result(k) \/ call_get_with_strategy(k, cat)))
                  => /\ cache'.call.ret = "None"
                     /\ cache'.store = cache.store
            /\ (Unavailable(cache) /\ (call_cache_result(k, d) \/ call_set_with_strategy(k, d, cat)))
                  => cache'.store = cache.store
            /\ (Unavailable(cache) /\ orchestrate_end(TRUE))
                  => /\ orch'.pc = "returned" /\ orch'.result.success
                     /\ cache'.store = cache.store]_vars

\* the workflow has returned after a learning write against a client whose
\* calls raise, the store still holding an entry written while it answered
C21_Witness ==
    /\ cache.redis = "down"
    /\ cache.call.op = "_learn_from_interaction"
    /\ orch.pc = "returned"
    /\ cache.interactions = 1
    /\ <<AgentCardName, UserPreferencesKey>> \notin DOMAIN cache.store
    /\ <<AgentCardName, "k1">> \in DOMAIN cache.store

\* ---------------------------------------------------------------------------
\* C22: can_execute() is a pure query: in every state of the breaker and at
\* every time the call leaves state, failure_count and last_failure_time as
\* they were.
C22_CanExecutePure ==
    cb_call.op = "can_execute"
        => /\ cb_call.after.state = cb_call.before.state
           /\ cb_call.after.failure_count = cb_call.before.failure_count
           /\ cb_call.after.last_failure_time = cb_call.before.last_failure_time

\* ---------------------------------------------------------------------------
\* C23: every create_task call that reaches dispatch has exactly one terminal
\* outcome, recorded once: either as a success (successful_requests + 1 and
\* record_success on the breaker) or as a failure (failed_requests + 1 and
\* record_failure on the breaker), never both and never neither, so
\* total_requests grows by exactly 1 per dispatched task.
MetricsOf(metrics, a) == IF a \in DOMAIN metrics THEN metrics[a] ELSE NewMetrics

C23_OneTerminalOutcome ==
    [][\A task \in BagToSet(tasks), o \in Outcomes :
          create_task_end(task, o) =>
             LET a  == task.agent
                 m  == MetricsOf(agent_metrics, a)
                 m1 == MetricsOf(agent_metrics', a)
                 cb == breakers[task.cb]
             IN  /\ m1.total_requests = m.total_requests + 1
                 /\ \/ /\ m1.successful_requests = m.successful_requests + 1
                       /\ m1.failed_requests = m.failed_requests
                       /\ breakers'[task.cb] = record_success(cb)
                    \/ /\ m1.failed_requests = m.failed_requests + 1
                       /\ m1.successful_requests = m.successful_requests
                       /\ breakers'[task.cb] = record_failure(cb, now)]_vars

\* ---------------------------------------------------------------------------
\* C24: the recorded avg_response_time of an agent is the arithmetic mean of
\* the latencies recorded for it: every latency x is folded in by
\* newAvg = (oldAvg*(n-1) + x)/n with n the number of latencies averaged so far,
\* this one included.  A latency is recorded by each _record_success_metrics,
\* so their number is successful_requests.
C24_AverageIsMean ==
    [][\A task \in BagToSet(tasks), o \in Outcomes :
          (create_task_end(task, o) /\ o # "error") =>
             LET m  == MetricsOf(agent_metrics, task.agent)
                 m1 == MetricsOf(agent_metrics', task.agent)
             IN  m1.avg_response_time
                    = RollingAverage(m.avg_response_time, m.successful_requests + 1,
                                     now - task.start_time)]_vars

\* ---------------------------------------------------------------------------
\* C25: record_request is applied after every completed call routed by
\* create_task: the request counts the load balancer holds for the instances of
\* an agent add up to the number of completed calls routed to that agent.
InFlight(a) ==
    BagCardinality([task \in {x \in BagToSet(tasks) : x.agent = a} |-> CopiesIn(task, tasks)])

Completed(a) == posts[a] - InFlight(a)

RecordedByBalancer(a) ==
    SumOf(request_counts, {id \in DOMAIN request_counts : id[1] = a})

C25_BalancerCountsCalls ==
    \A a \in AgentNames : RecordedByBalancer(a) = Completed(a)

\* ---------------------------------------------------------------------------
\* C26: no update is lost under concurrent routing: whenever all the create_task
\* calls dispatched to an agent have finished, its total_requests is their
\* number k, successful_requests + failed_requests = k, and failure_count of its
\* breaker is the number of failures recorded since the last recorded success.
C26_NoLostUpdate ==
    \A a \in DOMAIN circuit_breakers :
        InFlight(a) = 0
            => LET m == MetricsOf(agent_metrics, a)
               IN  /\ m.total_requests = posts[a]
                   /\ m.successful_requests + m.failed_requests = posts[a]
                   /\ breakers[circuit_breakers[a]].failure_count = consec[circuit_breakers[a]]

\* ---------------------------------------------------------------------------
\* C27: _register_agent_with_gateway makes at most max_retries attempts, stops
\* at the first one answered 200, sleeps between any two consecutive attempts
\* for a delay that doubles each time (2, 4, 8, 16 s) whether the earlier
\* attempt raised or was answered another status, and always terminates.
C27_Attempts ==
    /\ Len(selfreg.attempts) <= max_retries
    /\ \A i \in 1..(Len(selfreg.attempts) - 1) : selfreg.attempts[i] # "200"
    /\ (selfreg.attempts # << >> /\ selfreg.attempts[Len(selfreg.attempts)] = "200")
          => selfreg.pc = "returned"

C27_Delays ==
    \A i \in DOMAIN selfreg.delays : selfreg.delays[i] = InitialRetryDelay * 2^(i - 1)

C27_BoundedBackoff ==
    /\ [](C27_Attempts /\ C27_Delays)
    /\ <>(selfreg.pc \in {"returned", "gave_up"})

\* ---------------------------------------------------------------------------
\* C28: counter and state of a breaker agree in every reachable state: CLOSED
\* implies failure_count < failure_threshold; OPEN and HALF_OPEN imply
\* failure_count >= failure_threshold and a last_failure_time, so that an OPEN
\* breaker leaves OPEN at the first can_execute() after the timeout.
C28_CounterAgreesWithState ==
    \A b \in DOMAIN breakers :
        LET cb == breakers[b] IN
        /\ cb.state \in {"CLOSED", "OPEN", "HALF_OPEN"}
        /\ cb.state = "CLOSED" => cb.failure_count < cb.failure_threshold
        /\ cb.state \in {"OPEN", "HALF_OPEN"}
              => /\ cb.failure_count >= cb.failure_threshold
                 /\ cb.last_failure_time # None
        /\ (cb.state = "OPEN" /\ ~WithinTimeout(cb, now))
              => /\ can_execute(cb, now).ret
                 /\ can_execute(cb, now).cb.state = "HALF_OPEN"

\* a breaker that failed once more while OPEN and was then let into HALF_OPEN
C28_Witness ==
    /\ breakers[1].state = "HALF_OPEN"
    /\ breakers[1].failure_threshold = 2
    /\ breakers[1].failure_count = 3
    /\ cb_call.op = "can_execute"
    /\ cb_call.before.state = "OPEN"

\* ---------------------------------------------------------------------------
\* C29: re-registering a registered name keeps one registry entry for it,
\* replaces its breaker by a fresh one (CLOSED, failure_count 0) whatever the
\* old one's state, and resets the entry's request_count, error_count and
\* avg_response_time to 0, while agent_metrics keeps its totals.
C29_ReRegistered(a) ==
    (register_agent(a, TRUE) /\ a \in DOMAIN registered_agents)
        => /\ agent_keys' = agent_keys
           /\ Cardinality({i \in DOMAIN agent_keys' : agent_keys'[i] = a}) = 1
           /\ circuit_breakers'[a] \notin DOMAIN breakers
           /\ breakers'[circuit_breakers'[a]]
                 = NewCircuitBreaker(DefaultFailureThreshold, DefaultTimeout)
           /\ \A b \in DOMAIN breakers : breakers'[b] = breakers[b]
           /\ registered_agents'[a] = NewAgentInfo
           /\ agent_metrics' = agent_metrics

\* C29 as stated: and the next recorded call copies the totals of agent_metrics
\* (requests, errors, average) back into the entry.
C29_NextCallCopiesTotals ==
    [][\A a \in AgentNames :
          /\ C29_ReRegistered(a)
          /\ \A task \in BagToSet(tasks), o \in Outcomes :
                (create_task_end(task, o) /\ task.agent = a /\ a \in DOMAIN registered_agents)
                   => /\ registered_agents'[a].request_count = agent_metrics'[a].total_requests
                      /\ registered_agents'[a].error_count = agent_metrics'[a].failed_requests
                      /\ registered_agents'[a].avg_response_time
                            = agent_metrics'[a].avg_response_time]_vars

\* C29 amended: the next recorded call copies total_requests into request_count;
\* avg_response_time is copied by a call recorded as a success only, and
\* failed_requests into error_count by a call recorded as a failure only: until
\* then the field stays as the re-registration left it.
C29_NextCallCopiesItsFields ==
    [][\A a \in AgentNames :
          /\ C29_ReRegistered(a)
          /\ \A task \in BagToSet(tasks), o \in Outcomes :
                (create_task_end(task, o) /\ task.agent = a /\ a \in DOMAIN registered_agents)
                   => /\ registered_agents'[a].request_count = agent_metrics'[a].total_requests
                      /\ registered_agents'[a].error_count
                            = IF o = "ok" THEN registered_agents[a].error_count
                              ELSE agent_metrics'[a].failed_requests
                      /\ registered_agents'[a].avg_response_time
                            = IF o = "error" THEN registered_agents[a].avg_response_time
                              ELSE agent_metrics'[a].avg_response_time]_vars

\* a1 failed a call, registered again, and the next call, a success after 60 s
\* admitted by the fresh breaker, has brought the request total and the average
\* back into the entry; error_count is still the 0 of the re-registration
C29_Witness ==
    /\ reg_event.op = "register_agent" /\ reg_event.found /\ reg_event.status = 200
    /\ circuit_breakers["a1"] = 2
    /\ breakers[1].failure_count = 1
    /\ answer = Answer("a1", 200, 2, FALSE)
    /\ agent_metrics["a1"].total_requests = 2
    /\ agent_metrics["a1"].failed_requests = 1
    /\ registered_agents["a1"].request_count = 2
    /\ registered_agents["a1"].error_count = 0
    /\ registered_agents["a1"].avg_response_time = Rat(30, 1)

\* ---------------------------------------------------------------------------
\* C30: create_task takes every HTTP response received from the agent within
\* the timeout for a success, whatever its status code: it records success
\* metrics and record_success on the breaker.  Only transport errors and
\* timeouts count toward failure_count, and an agent that answers every task
\* never opens its breaker.
C30_ResponseIsSuccess ==
    [][\A task \in BagToSet(tasks), o \in Outcomes :
          (create_task_end(task, o) /\ task.agent \in DOMAIN registered_agents) =>
             LET m  == MetricsOf(agent_metrics, task.agent)
                 m1 == MetricsOf(agent_metrics', task.agent)
             IN  /\ o # "error"
                    => /\ m1.successful_requests = m.successful_requests + 1
                       /\ breakers'[task.cb].state = "CLOSED"
                 /\ breakers'[task.cb].failure_count > breakers[task.cb].failure_count
                    => o = "error"]_vars

====
